---------------------------- MODULE Spec2Model ----------------------------
(***************************************************************************)
(* tinycoder: CodeApplier.apply_edits, the FileManager operations it       *)
(* calls, and the commit gating of App.process_user_input.                 *)
(*                                                                         *)
(* Text is a sequence of one-character strings; LF and CR stand for the    *)
(* line feed and the carriage return.  A batch is the list `edits` of      *)
(* apply_edits; its length n is fixed when the call starts and the edit of *)
(* each loop iteration is drawn when the iteration runs (the edits do not  *)
(* depend on the state, so this yields exactly the runs of all batches).   *)
(*                                                                         *)
(* Four further specifications share the module: SpecParser runs          *)
(* EditParser.parse on replies built from fenced blocks (a reply is a      *)
(* sequence of tokens), SpecRunOne runs one user turn of App.run_one with  *)
(* its reflection loop, on the App state the batch's caller holds,         *)
(* SpecCss runs CssValidator.validate on short style sheets, and SpecGiven *)
(* runs apply_edits on a batch that is fixed when the call starts.         *)
(***************************************************************************)
EXTENDS Integers, Sequences, FiniteSets, TLC

\* ------------------------------------------------------------------ bounds
MaxEdits == 2

\* --------------------------------------------------------------- alphabet
LF == "LF"
CR == "CR"
Whitespace == {LF, CR, " "}

\* Python's None as an Optional[str], as an Optional[Path] and as a plain
\* return value; a path that is not on disk; no commit requested.
None == <<"None">>
NonePath == "<None>"
NoneValue == "None"
Absent == <<"Absent">>
NoCommit == {"<no commit>"}

\* Relative paths inside the project root, and the file names an edit can
\* carry: two spellings of a.py, b.txt, and a name that leaves the root.
RelPaths == {"a.py", "b.txt"}
Names == {"a.py", "./a.py", "b.txt", "../x.py"}

\* What each path can hold on disk when the batch starts.
DiskContents(p) ==
    IF p = "a.py"
    THEN {Absent, <<>>, <<"a">>, <<"a", CR, LF>>, <<"a", CR>>}
    ELSE {Absent, <<"a">>}

\* SEARCH blocks, and the (search, replace) pairs of an edit: the
\* replacement deletes, writes "b", or repeats the search text.
Searches == {<<>>, <<"a">>, <<LF>>, <<"a", CR, LF>>, <<"a", CR>>}
Blocks == {<<s, r>> : s \in Searches, r \in {<<>>, <<"b">>}}
          \cup {<<s, s>> : s \in Searches}

\* Answers typed at a (y/N) prompt.
Answers == {"y", "Y", "n", ""}

\* ------------------------------------------------------- string functions
\* sub occurs in s at position k (1-based)
OccursAt(s, sub, k) ==
    /\ k + Len(sub) - 1 <= Len(s)
    /\ \A j \in 1..Len(sub) : s[k + j - 1] = sub[j]

\* str.find, 1-based; 0 when sub does not occur
Find(s, sub) ==
    IF \E k \in 1..(Len(s) + 1) : OccursAt(s, sub, k)
    THEN CHOOSE k \in 1..(Len(s) + 1) :
            /\ OccursAt(s, sub, k)
            /\ \A m \in 1..(k - 1) : ~OccursAt(s, sub, m)
    ELSE 0

\* `sub in s`
Contains(s, sub) == Find(s, sub) # 0

\* s.replace(sub, rep, 1)
ReplaceFirst(s, sub, rep) ==
    LET k == Find(s, sub)
    IN IF k = 0 THEN s
       ELSE SubSeq(s, 1, k - 1) \o rep \o SubSeq(s, k + Len(sub), Len(s))

\* s.replace(sub, rep) for a non-empty sub
RECURSIVE ReplaceAll(_, _, _)
ReplaceAll(s, sub, rep) ==
    LET k == Find(s, sub)
    IN IF k = 0 THEN s
       ELSE SubSeq(s, 1, k - 1) \o rep
            \o ReplaceAll(SubSeq(s, k + Len(sub), Len(s)), sub, rep)

\* s.strip() == ""
StripIsEmpty(s) == \A k \in 1..Len(s) : s[k] \in Whitespace

\* str.lower on an answer
Lower(ans) == IF ans = "Y" THEN "y" ELSE IF ans = "N" THEN "n" ELSE ans

\* Text decoding of Path.read_text (newline=None): CR LF and a lone CR both
\* read as LF.
RECURSIVE UniversalNewlines(_)
UniversalNewlines(s) ==
    IF s = <<>> THEN <<>>
    ELSE IF s[1] = CR
         THEN IF Len(s) > 1 /\ s[2] = LF
              THEN <<LF>> \o UniversalNewlines(SubSeq(s, 3, Len(s)))
              ELSE <<LF>> \o UniversalNewlines(Tail(s))
         ELSE <<s[1]>> \o UniversalNewlines(Tail(s))

\* ------------------------------------------------------------ FileManager
\* get_abs_path without the containment check: the name outside the root
\* lands on a project file
get_abs_path_unconfined(fname) ==
    IF fname = "../x.py" THEN "b.txt"
    ELSE IF fname = "./a.py" THEN "a.py"
    ELSE fname

\* get_abs_path followed by _get_rel_path: the relative path of a name, or
\* None when the name resolves outside the project root.
get_abs_path(fname) ==
    IF fname = "../x.py" THEN NonePath
    ELSE IF fname = "./a.py" THEN "a.py"
    ELSE fname

\* abs_path.suffix.lower()
Suffix(p) == IF p = "a.py" THEN ".py" ELSE ".txt"

\* read_file: the decoded text, or None when reading raises
read_file(d, p) == IF d[p] = Absent THEN None ELSE UniversalNewlines(d[p])

\* write_file, successful case: the bytes left on disk.  A file that holds
\* CR LF gets every LF of the new content written as CR LF.
write_file(d, p, content) ==
    IF d[p] # Absent /\ Contains(d[p], <<CR, LF>>)
    THEN ReplaceAll(content, <<LF>>, <<CR, LF>>)
    ELSE content

\* add_file(fname) for a name that resolves to p: the new tracked set, the
\* new disk and the returned value.  create is the answer to "Create it?",
\* createOk whether create_file succeeds.  Every path of the function ends
\* in a bare return or falls off the end, so the value is None.
add_file(fn, d, p, create, createOk) ==
    IF d[p] = Absent
    THEN IF Lower(create) = "y"
         THEN IF createOk
              THEN [fnames |-> fn \cup {p}, disk |-> [d EXCEPT ![p] = <<>>],
                    asked |-> TRUE, ret |-> NoneValue]
              ELSE [fnames |-> fn, disk |-> d, asked |-> TRUE, ret |-> NoneValue]
         ELSE [fnames |-> fn, disk |-> d, asked |-> TRUE, ret |-> NoneValue]
    ELSE [fnames |-> fn \cup {p}, disk |-> d, asked |-> FALSE, ret |-> NoneValue]

\* Python truth value of what add_file returns
Truthy(v) == v \notin {NoneValue, "False"}


\* ------------------------------------------------------------------ state
VARIABLES
    pc,                        \* "idle", "apply", "returned", "done"
    disk,                      \* relative path -> bytes on disk, or Absent
    disk0,                     \* the disk when the batch started
    fnames,                    \* FileManager.fnames, the tracked set
    n,                         \* len(edits)
    i,                         \* edits processed so far
    failed_edits_indices,
    original_file_content,     \* dict: relative path -> text or None
    edited_file_content,       \* dict: relative path -> text
    touched_files,
    files_created_in_this_run,
    write_failed,
    modified_files_on_disk,
    lint_errors_found,         \* keys of the dict
    finalized,                 \* paths the write loop has visited
    linted,                    \* paths the lint loop has visited
    all_succeeded,
    commit_request,            \* paths given to _git_add_commit, or NoCommit
    committed,                 \* paths given to commit_files, or NoCommit
    reflected_message,         \* "None", "failed" or "lint"
    reads,                     \* read_file calls per path in this batch
    writes,                    \* write_file calls per path in this batch
    applied,                   \* indices whose edit changed the content
    noop,                      \* indices whose edit left the content as is
    lint_calls,                \* texts handed to a linter, per path
    last,                      \* what the latest loop iteration did
    batch                      \* the edits, when the call was given them whole

\* EditParser.parse: its inputs, its locals and what it has produced so far
VARIABLES
    blocks,                    \* the fenced blocks the response was built from
    response,                  \* the reply, as a sequence of tokens
    current_fnames,            \* what fnames_provider() returns
    ppc,                       \* "off", "scan" (in the loop), "done"
    scan,                      \* where finditer looks for the next fence
    last_pos,
    edits,                     \* the (fname, search, replace) found so far
    warnings,                  \* print_warning calls, with the block's number
    blocklog                   \* per fence: how its file name was resolved

\* App.run_one: one user turn
VARIABLES
    tpc,                       \* "off", "start", "process", "loop", "exit"
    non_interactive,
    mode,                      \* "code" or "ask"
    num_reflections,
    llm_calls,                 \* client.generate_content calls of the turn
    process_calls,             \* process_user_input calls of the turn
    apply_calls,               \* apply_edits calls of the turn
    prompts,                   \* input() calls "Attempt to fix lint errors?"
    limit_hit,                 \* the loop was left at the reflection limit
    failed_indices_str,        \* the indices the pending message names
    lastround                  \* what the latest process_user_input did

\* CssValidator.validate: the object's fields and the locals of its checks
VARIABLES
    cpc,                       \* "off", "start", "braces", "rules", "ret", "done"
    css_content,               \* the text, as a sequence of tokens
    content_no_comments,
    errors,                    \* self._errors
    ci,                        \* characters the brace loop has visited
    brace_balance,
    is_valid,                  \* the first component of what validate returns
    structure_checked          \* _check_rule_structure was called

applierVars == <<pc, disk, disk0, fnames, n, i, failed_edits_indices,
                 original_file_content, edited_file_content, touched_files,
                 files_created_in_this_run, write_failed,
                 modified_files_on_disk, lint_errors_found, finalized,
                 linted, all_succeeded, commit_request, committed,
                 reflected_message, reads, writes, applied, noop,
                 lint_calls, last, batch>>

parserVars == <<blocks, response, current_fnames, ppc, scan, last_pos,
                edits, warnings, blocklog>>

turnVars == <<tpc, non_interactive, mode, num_reflections, llm_calls,
              process_calls, apply_calls, prompts, limit_hit,
              failed_indices_str, lastround>>

cssVars == <<cpc, css_content, content_no_comments, errors, ci,
             brace_balance, is_valid, structure_checked>>

vars == <<applierVars, parserVars, turnVars, cssVars>>

batchVars == <<failed_edits_indices, original_file_content,
               edited_file_content, touched_files,
               files_created_in_this_run, write_failed,
               modified_files_on_disk, lint_errors_found, finalized, linted>>

callerVars == <<all_succeeded, commit_request, committed, reflected_message>>

EmptyDict == [p \in {} |-> None]

\* no parse is under way
ParserIdle ==
    /\ blocks = <<>>
    /\ response = <<>>
    /\ current_fnames = {}
    /\ ppc = "off"
    /\ scan = 1
    /\ last_pos = 1
    /\ edits = <<>>
    /\ warnings = <<>>
    /\ blocklog = <<>>

\* no validation is under way
CssIdle ==
    /\ cpc = "off"
    /\ css_content = <<>>
    /\ content_no_comments = <<>>
    /\ errors = <<>>
    /\ ci = 0
    /\ brace_balance = 0
    /\ is_valid = FALSE
    /\ structure_checked = FALSE

\* reply: what the model sent ("none": nothing, "text": no edit, "edits");
\* applied: apply_edits was called; committed: _git_add_commit was called;
\* asked: the lint question was put; accepted: it was answered with y.
NoRound == [reply |-> "-", applied |-> FALSE, committed |-> FALSE,
            asked |-> FALSE, accepted |-> FALSE]

\* no user turn is under way
TurnIdle ==
    /\ tpc = "off"
    /\ non_interactive = FALSE
    /\ mode = "code"
    /\ num_reflections = 0
    /\ llm_calls = 0
    /\ process_calls = 0
    /\ apply_calls = 0
    /\ prompts = 0
    /\ limit_hit = FALSE
    /\ failed_indices_str = <<>>
    /\ lastround = NoRound

\* kind: how the iteration ended; name, path: the edit's file name and its
\* relative path; answer: what was typed at "Allow?" ("-": no prompt);
\* idem: the batch is the single edit (f, c, c) and f held c on disk.
NoStep == [kind |-> "start", name |-> "-", path |-> NonePath,
           answer |-> "-", idem |-> FALSE]

\* dict[key] = value
Put(dict, key, value) ==
    [k \in DOMAIN dict \cup {key} |-> IF k = key THEN value ELSE dict[k]]

\* dict.get(key) with the default None
Get(dict, key) == IF key \in DOMAIN dict THEN dict[key] ELSE None

\* ---------------------------------------------------- apply_edits, pieces
\* the prompt shown for every path the batch has not touched, tracked or not
needs_confirm_untouched(rel_path, fn, touched) == rel_path \notin touched

\* the condition under which the confirmation prompt is shown
needs_confirm(rel_path, fn, touched) ==
    rel_path \notin fn /\ rel_path \notin touched

\* the disk is read again at every edit
is_first_touch_always(rel_path, original) == TRUE

\* `rel_path not in original_file_content`
is_first_touch(rel_path, original) == rel_path \notin DOMAIN original

\* text.replace("\r\n", "\n")
normalize(text) == ReplaceAll(text, <<CR, LF>>, <<LF>>)

is_search_effectively_empty(search) ==
    search = <<>> \/ (StripIsEmpty(search) /\ search # <<>>)

\* the case of the in-memory edit logic that an edit falls into
classify(current, search) ==
    IF current = <<>> /\ is_search_effectively_empty(search) THEN "init"
    ELSE IF search = <<>> THEN "prepend"
    ELSE IF Contains(current, search) THEN "substitute"
    ELSE "notfound"

\* every occurrence of the search text is replaced
new_content_all_occurrences(current, search, replace) ==
    CASE classify(current, search) = "init" -> replace
      [] classify(current, search) = "prepend" -> replace \o current
      [] classify(current, search) = "substitute" ->
            ReplaceAll(current, search, replace)
      [] OTHER -> current

\* new_content_normalized of the three cases that produce one
new_content(current, search, replace) ==
    CASE classify(current, search) = "init" -> replace
      [] classify(current, search) = "prepend" -> replace \o current
      [] classify(current, search) = "substitute" ->
            ReplaceFirst(current, search, replace)
      [] OTHER -> current

\* every touched file is written
needs_write_always(rel_path, created, final, initial) == final # None

\* only the files created in this run are written
needs_write_created_only(rel_path, created, final, initial) ==
    rel_path \in created /\ final # None

\* needs_write of the write loop
needs_write(rel_path, created, final, initial) ==
    IF rel_path \in created
    THEN final # None
    ELSE final # None
         /\ final # (IF initial # None THEN normalize(initial) ELSE None)

\* write failures are forgotten
compute_all_succeeded_no_write(failed, wfailed) == failed = <<>>

compute_all_succeeded(failed, wfailed) == failed = <<>> /\ ~wfailed

\* commit whenever something was modified
commit_gate_modified_only(succeeded, modified) == modified # {}

\* the guard of process_user_input in front of _git_add_commit
commit_gate(succeeded, modified) == succeeded /\ modified # {}

\* modified_files_on_disk after write_file returned ok for rel_path
\* (mutant: the path is listed whatever write_file returned)
record_write_always(modified, rel_path, ok) == modified \cup {rel_path}

\* `if self.file_manager.write_file(...): modified_files_on_disk.add(...)`
record_write(modified, rel_path, ok) ==
    IF ok THEN modified \cup {rel_path} ELSE modified

\* the text given to the linter (mutant: the text read at first touch)
content_to_lint_original(edited, original, rel_path) == Get(original, rel_path)

\* `content_to_lint = edited_file_content.get(rel_path)`
content_to_lint(edited, original, rel_path) == Get(edited, rel_path)

LintableSuffixes == {".py", ".ipynb", ".html", ".htm", ".css"}

\* ------------------------------------------------------------------- Init
Init ==
    /\ pc = "idle"
    /\ disk \in [RelPaths -> UNION {DiskContents(p) : p \in RelPaths}]
    /\ \A p \in RelPaths : disk[p] \in DiskContents(p)
    /\ disk0 = disk
    /\ fnames \in SUBSET RelPaths
    /\ n = 0
    /\ i = 0
    /\ failed_edits_indices = <<>>
    /\ original_file_content = EmptyDict
    /\ edited_file_content = EmptyDict
    /\ touched_files = {}
    /\ files_created_in_this_run = {}
    /\ write_failed = FALSE
    /\ modified_files_on_disk = {}
    /\ lint_errors_found = {}
    /\ finalized = {}
    /\ linted = {}
    /\ all_succeeded = FALSE
    /\ commit_request = NoCommit
    /\ committed = NoCommit
    /\ reflected_message = "None"
    /\ reads = [p \in RelPaths |-> 0]
    /\ writes = [p \in RelPaths |-> 0]
    /\ applied = {}
    /\ noop = {}
    /\ lint_calls = [p \in RelPaths |-> <<>>]
    /\ last = NoStep
    /\ batch = <<>>
    /\ ParserIdle
    /\ TurnIdle
    /\ CssIdle

\* process_user_input found edits in the reply and calls apply_edits
StartApply ==
    /\ UNCHANGED <<parserVars, turnVars, cssVars, batch>>
    /\ pc = "idle"
    /\ pc' = "apply"
    /\ \E len \in 1..MaxEdits : n' = len
    /\ UNCHANGED <<disk, disk0, fnames, i, batchVars, callerVars,
                   reads, writes, applied, noop, lint_calls, last>>

\* the iteration is left without recording the index
SkipEdit_silent(kind, fname, rel_path, answer, fn, d, idem) ==
    /\ fnames' = fn
    /\ disk' = d
    /\ last' = [kind |-> kind, name |-> fname, path |-> rel_path,
                answer |-> answer, idem |-> idem]
    /\ UNCHANGED <<failed_edits_indices, original_file_content,
                   edited_file_content, touched_files,
                   files_created_in_this_run, reads, applied, noop>>

\* the file is marked touched before the iteration is left
SkipEdit_touching(kind, fname, rel_path, answer, fn, d, idem) ==
    /\ failed_edits_indices' = Append(failed_edits_indices, i + 1)
    /\ fnames' = fn
    /\ disk' = d
    /\ touched_files' = touched_files \cup (RelPaths \cap {rel_path})
    /\ original_file_content' =
          IF rel_path \in RelPaths /\ rel_path \notin DOMAIN original_file_content
          THEN Put(original_file_content, rel_path, read_file(d, rel_path))
          ELSE original_file_content
    /\ edited_file_content' =
          IF rel_path \in RelPaths /\ rel_path \notin DOMAIN edited_file_content
          THEN Put(edited_file_content, rel_path,
                   IF read_file(d, rel_path) # None
                   THEN read_file(d, rel_path) ELSE <<>>)
          ELSE edited_file_content
    /\ last' = [kind |-> kind, name |-> fname, path |-> rel_path,
                answer |-> answer, idem |-> idem]
    /\ UNCHANGED <<files_created_in_this_run, reads, applied, noop>>

\* an iteration of the edit loop that ends in `continue` before the file is
\* touched
SkipEdit(kind, fname, rel_path, answer, fn, d, idem) ==
    /\ failed_edits_indices' = Append(failed_edits_indices, i + 1)
    /\ fnames' = fn
    /\ disk' = d
    /\ last' = [kind |-> kind, name |-> fname, path |-> rel_path,
                answer |-> answer, idem |-> idem]
    /\ UNCHANGED <<original_file_content, edited_file_content,
                   touched_files, files_created_in_this_run, reads,
                   applied, noop>>

\* the rest of an iteration once the file is resolved and allowed
TouchAndEdit(fname, rel_path, search_block, replace_block, answer, fn, d, idem) ==
    LET first_touch == is_first_touch(rel_path, original_file_content)
        disk_content == read_file(d, rel_path)
        original1 == IF first_touch
                     THEN Put(original_file_content, rel_path, disk_content)
                     ELSE original_file_content
        edited1 == IF first_touch
                   THEN Put(edited_file_content, rel_path,
                            IF disk_content # None
                            THEN normalize(disk_content) ELSE <<>>)
                   ELSE edited_file_content
        current == IF Get(edited1, rel_path) # None
                   THEN edited1[rel_path] ELSE <<>>
        original_exists_on_disk == Get(original1, rel_path) # None
        search == normalize(search_block)
        replace == normalize(replace_block)
        case == classify(current, search)
        new == new_content(current, search, replace)
    IN /\ fnames' = fn
       /\ disk' = d
       /\ touched_files' = touched_files \cup {rel_path}
       /\ original_file_content' = original1
       /\ reads' = IF first_touch
                   THEN [reads EXCEPT ![rel_path] = @ + 1] ELSE reads
       /\ files_created_in_this_run' =
             IF case = "init" /\ ~original_exists_on_disk
             THEN files_created_in_this_run \cup {rel_path}
             ELSE files_created_in_this_run
       /\ IF case = "notfound"
          THEN /\ failed_edits_indices' = Append(failed_edits_indices, i + 1)
               /\ edited_file_content' = edited1
               /\ UNCHANGED <<applied, noop>>
          ELSE /\ UNCHANGED failed_edits_indices
               /\ edited_file_content' =
                     [edited1 EXCEPT ![rel_path] = new]
               /\ applied' = IF new # current
                             THEN applied \cup {i + 1} ELSE applied
               /\ noop' = IF new = current THEN noop \cup {i + 1} ELSE noop
       /\ last' = [kind |-> IF case = "notfound" THEN "notfound"
                            ELSE IF new # current THEN "applied"
                            ELSE "noop",
                   name |-> fname, path |-> rel_path, answer |-> answer,
                   idem |-> idem]

\* one iteration of `for i, (fname, search_block, replace_block) in
\* enumerate(edits)`
\* confirm is the answer to "Allow?", create the answer to add_file's
\* "Create it?", createOk whether create_file succeeds.
EditStep(fname, search_block, replace_block) ==
    LET rel_path == get_abs_path(fname)
        idem == /\ n = 1
                /\ rel_path # NonePath
                /\ search_block = replace_block
                /\ disk0[rel_path] = search_block
    IN IF rel_path = NonePath
       THEN SkipEdit("unresolved", fname, rel_path, "-", fnames, disk, FALSE)
       ELSE IF needs_confirm(rel_path, fnames, touched_files)
            THEN \E confirm \in Answers :
                 IF Lower(confirm) = "y"
                 THEN \E create \in Answers, createOk \in BOOLEAN :
                      LET r == add_file(fnames, disk, rel_path,
                                        create, createOk)
                      IN IF ~Truthy(r.ret)
                         THEN SkipEdit("addfailed", fname, rel_path, confirm,
                                       r.fnames, r.disk, idem)
                         ELSE TouchAndEdit(fname, rel_path, search_block,
                                           replace_block, confirm,
                                           r.fnames, r.disk, idem)
                 ELSE SkipEdit("declined", fname, rel_path, confirm, fnames,
                               disk, idem)
            ELSE TouchAndEdit(fname, rel_path, search_block, replace_block,
                              "-", fnames, disk, idem)

ApplyEdit ==
    /\ UNCHANGED <<parserVars, turnVars, cssVars, batch>>
    /\ pc = "apply"
    /\ i < n
    /\ i' = i + 1
    /\ \E fname \in Names, block \in Blocks :
          EditStep(fname, block[1], block[2])
    /\ UNCHANGED <<pc, disk0, n, write_failed,
                   modified_files_on_disk, lint_errors_found, finalized,
                   linted, callerVars, writes, lint_calls>>

\* one iteration of the write loop `for rel_path in touched_files`
FinalizeFile ==
    /\ UNCHANGED <<parserVars, turnVars, cssVars, batch>>
    /\ pc = "apply"
    /\ i = n
    /\ \E rel_path \in touched_files \ finalized, ok \in BOOLEAN :
          LET final == Get(edited_file_content, rel_path)
              initial == Get(original_file_content, rel_path)
              nw == needs_write(rel_path, files_created_in_this_run,
                                final, initial)
          IN /\ finalized' = finalized \cup {rel_path}
             /\ IF get_abs_path(rel_path) = NonePath
                THEN /\ write_failed' = TRUE
                     /\ UNCHANGED <<disk, modified_files_on_disk, writes>>
                ELSE IF nw
                THEN /\ writes' = [writes EXCEPT ![rel_path] = @ + 1]
                     /\ modified_files_on_disk' =
                           record_write(modified_files_on_disk, rel_path, ok)
                     /\ IF ok
                        THEN /\ disk' = [disk EXCEPT ![rel_path] =
                                            write_file(disk, rel_path, final)]
                             /\ UNCHANGED write_failed
                        ELSE /\ write_failed' = TRUE
                             /\ UNCHANGED disk
                ELSE UNCHANGED <<disk, modified_files_on_disk, writes,
                                 write_failed>>
    /\ UNCHANGED <<pc, disk0, fnames, n, i, failed_edits_indices,
                   original_file_content, edited_file_content,
                   touched_files, files_created_in_this_run,
                   lint_errors_found, linted, callerVars, reads, applied,
                   noop, lint_calls, last>>

\* one iteration of the lint loop; the linter's verdict on a text is an
\* input
LintFile ==
    /\ UNCHANGED <<parserVars, turnVars, cssVars, batch>>
    /\ pc = "apply"
    /\ i = n
    /\ finalized = touched_files
    /\ \E rel_path \in touched_files \ linted, error \in BOOLEAN :
          LET text == content_to_lint(edited_file_content,
                                      original_file_content, rel_path)
              runs == /\ get_abs_path(rel_path) # NonePath
                      /\ text # None
                      /\ Suffix(rel_path) \in LintableSuffixes
          IN /\ linted' = linted \cup {rel_path}
             /\ lint_calls' = IF runs
                              THEN [lint_calls EXCEPT ![rel_path] =
                                                         Append(@, text)]
                              ELSE lint_calls
             /\ lint_errors_found' = IF runs /\ error
                                     THEN lint_errors_found \cup {rel_path}
                                     ELSE lint_errors_found
    /\ UNCHANGED <<pc, disk, disk0, fnames, n, i,
                   failed_edits_indices, original_file_content,
                   edited_file_content, touched_files,
                   files_created_in_this_run, write_failed,
                   modified_files_on_disk, finalized, callerVars, reads,
                   writes, applied, noop, last>>

\* `all_succeeded = ...; return ...`
Return ==
    /\ UNCHANGED <<parserVars, turnVars, cssVars, batch>>
    /\ pc = "apply"
    /\ i = n
    /\ finalized = touched_files
    /\ linted = touched_files
    /\ pc' = "returned"
    /\ all_succeeded' = compute_all_succeeded(failed_edits_indices,
                                              write_failed)
    /\ UNCHANGED <<disk, disk0, fnames, n, i, batchVars,
                   commit_request, committed, reflected_message, reads,
                   writes, applied, noop, lint_calls, last>>

\* ------------------------------------- process_user_input, after the apply
\* sorted(failed_indices)
sorted(seq) == SortSeq(seq, LAMBDA a, b : a < b)

\* the files are committed only when no lint error was found
commit_files_of_lint_clean(succeeded, modified, lint) ==
    IF succeeded /\ modified # {} /\ lint = {} THEN modified ELSE NoCommit

\* `if all_succeeded: if modified_files: self._git_add_commit(...)`: the
\* files handed to _git_add_commit given what apply_edits returned, or
\* NoCommit; lint_errors is in scope and is not looked at
commit_files_of(succeeded, modified, lint) ==
    IF commit_gate(succeeded, modified) THEN modified ELSE NoCommit

\* `elif failed_indices:` under `if all_succeeded:`
reflects_failure(succeeded, failed) == ~succeeded /\ failed # <<>>

\* `if self.lint_errors_found:`, the condition of the lint question; refl is
\* the reflection message pending when the check is reached
lint_question_due(lint, refl) == lint # {}

\* the lint check that ends process_user_input in code mode; refl and
\* indices are the reflection message the edits left, rnd describes the
\* round up to here
LintCheck(lint, refl, indices, rnd) ==
    IF lint_question_due(lint, refl)
    THEN /\ prompts' = prompts + 1
         /\ \E fix_lint \in Answers :
               LET yes == Lower(fix_lint) = "y"
               IN /\ reflected_message' = IF yes THEN "lint" ELSE refl
                  /\ failed_indices_str' = IF yes THEN <<>> ELSE indices
                  /\ lastround' = [rnd EXCEPT !.asked = TRUE,
                                              !.accepted = yes]
    ELSE /\ reflected_message' = refl
         /\ failed_indices_str' = indices
         /\ lastround' = rnd
         /\ UNCHANGED prompts

\* process_user_input from the return of apply_edits to its end: the
\* commit, the reflection on failed edits, the lint check
HandleApplied(succeeded, failed, modified, lint) ==
    LET commits == commit_files_of(succeeded, modified, lint)
        fails == reflects_failure(succeeded, failed)
    IN /\ commit_request' = IF commits # NoCommit THEN commits
                            ELSE commit_request
       /\ LintCheck(lint,
                    IF fails THEN "failed" ELSE reflected_message,
                    IF fails THEN sorted(failed) ELSE failed_indices_str,
                    [reply |-> "edits", applied |-> TRUE,
                     committed |-> commits # NoCommit, asked |-> FALSE,
                     accepted |-> FALSE])

\* process_user_input after apply_edits returned, with _git_add_commit
HandleResult ==
    /\ UNCHANGED <<parserVars, cssVars, batch, tpc, non_interactive, mode,
                   num_reflections, llm_calls, process_calls, apply_calls,
                   limit_hit>>
    /\ pc = "returned"
    /\ pc' = "done"
    /\ HandleApplied(all_succeeded, failed_edits_indices,
                     modified_files_on_disk, lint_errors_found)
    /\ IF commit_files_of(all_succeeded, modified_files_on_disk,
                          lint_errors_found) # NoCommit
       THEN \E is_repo \in BOOLEAN :
            LET existing == {p \in modified_files_on_disk :
                                get_abs_path(p) # NonePath
                                /\ disk[p] # Absent}
            IN committed' = IF is_repo /\ existing # {}
                            THEN existing ELSE NoCommit
       ELSE UNCHANGED committed
    /\ UNCHANGED <<disk, disk0, fnames, n, i, batchVars,
                   all_succeeded, reads, writes, applied, noop, lint_calls,
                   last>>

Next ==
    \/ StartApply
    \/ ApplyEdit
    \/ FinalizeFile
    \/ LintFile
    \/ Return
    \/ HandleResult

Spec == Init /\ [][Next]_vars

TypeOK ==
    /\ pc \in {"idle", "apply", "returned", "done"}
    /\ i \in 0..n
    /\ touched_files \subseteq RelPaths
    /\ DOMAIN original_file_content = touched_files
    /\ DOMAIN edited_file_content = touched_files


\* ================================================================ claims
Done == pc \in {"returned", "done"}

Range(seq) == {seq[k] : k \in 1..Len(seq)}

\* paths on which write_file was called and returned False
FailedWrites == {p \in RelPaths : writes[p] > 0 /\ p \notin modified_files_on_disk}

HadCRLF(p) == disk0[p] # Absent /\ Contains(disk0[p], <<CR, LF>>)

HasBareCR(s) ==
    \E k \in 1..Len(s) : s[k] = CR /\ (k = Len(s) \/ s[k + 1] # LF)

\* C1: once apply_edits has returned, all_succeeded is true exactly when
\* failed_indices is empty and no write of the finalize phase failed.
C1_AllSucceededIff ==
    Done => (all_succeeded <=>
                (failed_edits_indices = <<>> /\ FailedWrites = {}))

\* a batch whose edits all succeeded and whose write failed
C1_Witness ==
    /\ Done
    /\ failed_edits_indices = <<>>
    /\ FailedWrites # {}
    /\ ~all_succeeded

\* C2: the indices 1..i processed so far are split into applied, no-op and
\* failed_indices with no index in two of them and none missing;
\* failed_indices is strictly increasing; the batch returns only after all n
\* indices were visited; an applied edit changes some in-memory content, a
\* no-op or failed edit changes none.
C2_Partition ==
    /\ applied \cup noop \cup Range(failed_edits_indices) = 1..i
    /\ applied \cap noop = {}
    /\ applied \cap Range(failed_edits_indices) = {}
    /\ noop \cap Range(failed_edits_indices) = {}
    /\ \A k \in 1..(Len(failed_edits_indices) - 1) :
          failed_edits_indices[k] < failed_edits_indices[k + 1]
    /\ Len(failed_edits_indices) <= i
    /\ Done => i = n

C2_StepEffect ==
    (i' = i + 1) =>
       /\ (i + 1) \in applied' =>
             \E p \in DOMAIN edited_file_content' :
                p \notin DOMAIN edited_file_content
                \/ edited_file_content'[p] # edited_file_content[p]
       /\ (i + 1) \notin applied' =>
             \A p \in DOMAIN edited_file_content :
                edited_file_content'[p] = edited_file_content[p]

C2_EveryIndexAccounted == [](C2_Partition) /\ [][C2_StepEffect]_vars

\* a finished batch of two edits, the first applied and the second failed
C2_Witness ==
    /\ Done
    /\ n = 2
    /\ applied = {1}
    /\ failed_edits_indices = <<2>>

\* C3: after a return with every write succeeding, a path is in
\* modified_files exactly when its final in-memory content differs from the
\* disk content captured at first touch, or the file did not exist at batch
\* start and now has content.
C3_ModifiedIffChanged ==
    (Done /\ ~write_failed) =>
       \A p \in RelPaths :
          p \in modified_files_on_disk <=>
             /\ p \in touched_files
             /\ \/ /\ original_file_content[p] # None
                   /\ edited_file_content[p] # original_file_content[p]
                \/ /\ disk0[p] = Absent
                   /\ edited_file_content[p] # <<>>

\* C4: the commit action is requested only in a round whose all_succeeded
\* is true and whose modified_files is non-empty, and only for paths of
\* modified_files.
C4_CommitGated ==
    /\ commit_request # NoCommit =>
          /\ all_succeeded
          /\ modified_files_on_disk # {}
          /\ commit_request = modified_files_on_disk
    /\ committed # NoCommit =>
          /\ commit_request # NoCommit
          /\ committed \subseteq modified_files_on_disk
    /\ (Done /\ ~all_succeeded) =>
          (commit_request = NoCommit /\ committed = NoCommit)

\* a finished round with modified files, a failed edit and no commit
C4_Witness ==
    /\ pc = "done"
    /\ ~all_succeeded
    /\ modified_files_on_disk # {}
    /\ commit_request = NoCommit

\* C5: while edits are still being resolved, no step changes the disk.
C5_NoWriteBeforeFinalize ==
    [][(pc = "apply" /\ i < n) => disk' = disk]_vars

C6_Inv ==
    \A p \in RelPaths :
       /\ reads[p] <= 1
       /\ writes[p] <= 1
       /\ p \in modified_files_on_disk =>
             disk[p] = IF HadCRLF(p)
                       THEN ReplaceAll(edited_file_content[p], <<LF>>,
                                       <<CR, LF>>)
                       ELSE edited_file_content[p]

C6_Chained ==
    (i' = i + 1 /\ last'.path \in touched_files) =>
       LET p == last'.path
       IN /\ reads' = reads
          /\ original_file_content' = original_file_content
          /\ \E b \in Blocks :
                edited_file_content'[p] =
                   new_content(edited_file_content[p], normalize(b[1]),
                               normalize(b[2]))
          /\ last'.kind = "notfound" =>
                edited_file_content'[p] = edited_file_content[p]

C7_Idempotent ==
    (Done /\ last.idem) =>
       /\ writes[last.path] = 0
       /\ disk = disk0
       /\ last.path \notin modified_files_on_disk
       /\ failed_edits_indices = <<>>

\* C7 amended: the single edit (f, c, c) on a file f that holds c causes no
\* write and keeps f out of modified_files; it records no failed index when
\* f is tracked and c has no CR that is not followed by LF.
C7_IdempotentTracked ==
    (Done /\ last.idem) =>
       /\ writes[last.path] = 0
       /\ disk = disk0
       /\ last.path \notin modified_files_on_disk
       /\ (last.answer = "-" /\ ~HasBareCR(disk0[last.path])) =>
             failed_edits_indices = <<>>

\* the edit (f, c, c) went through as a no-op on a non-empty tracked file
C7_Witness ==
    /\ Done
    /\ last.idem
    /\ last.kind = "noop"
    /\ disk0[last.path] # <<>>
    /\ noop = {1}

DeclineEffect ==
    /\ failed_edits_indices' = Append(failed_edits_indices, i + 1)
    /\ reads' = reads
    /\ disk' = disk
    /\ fnames' = fnames
    /\ touched_files' = touched_files
    /\ original_file_content' = original_file_content
    /\ edited_file_content' = edited_file_content
    /\ pc' = "apply"

\* C8 as stated: an answer other than 'y' at the confirmation prompt
\* records that index as failed, reads, touches and writes nothing, leaves
\* the tracked set as it was, and the batch goes on.
C8_NotYDeclines ==
    [][(i' = i + 1 /\ last'.answer \notin {"-", "y"}) => DeclineEffect]_vars

\* C8 amended: an answer other than 'y' or 'Y' at the confirmation prompt
\* records that index as failed, reads, touches and writes nothing, leaves
\* the tracked set as it was, and the batch goes on.
C8_DeclineSkipsEdit ==
    [][(i' = i + 1 /\ last'.answer \notin {"-", "y", "Y"})
          => DeclineEffect]_vars

\* the first of two edits was declined
C8_Witness ==
    /\ pc = "apply"
    /\ n = 2
    /\ i = 1
    /\ last.kind = "declined"
    /\ last.answer = "n"
    /\ failed_edits_indices = <<1>>
    /\ touched_files = {}

\* C9: an edit on an untracked path that the user accepts, and whose path
\* add_file put into the tracked set, is classified and applied like an
\* edit on a tracked file.
C9_AcceptedEditProceeds ==
    [][(i' = i + 1 /\ last'.answer \in {"y", "Y"} /\ last'.path \in fnames')
          => last'.kind \in {"applied", "noop", "notfound"}]_vars

\* C10: an edit whose file name resolves outside the project root records
\* its index as failed, asks nothing, reads and writes nothing, creates no
\* file state, and the batch goes on.
C10_UnresolvedSkipsEdit ==
    [][(i' = i + 1 /\ last'.name = "../x.py") =>
          /\ failed_edits_indices' = Append(failed_edits_indices, i + 1)
          /\ last'.answer = "-"
          /\ reads' = reads
          /\ disk' = disk
          /\ fnames' = fnames
          /\ touched_files' = touched_files
          /\ original_file_content' = original_file_content
          /\ edited_file_content' = edited_file_content
          /\ files_created_in_this_run' = files_created_in_this_run
          /\ pc' = "apply"]_vars

\* the first of two edits named a file outside the root
C10_Witness ==
    /\ pc = "apply"
    /\ n = 2
    /\ i = 1
    /\ last.name = "../x.py"
    /\ failed_edits_indices = <<1>>
    /\ touched_files = {}

\* --------------------------------------------------------------- C11
\* a step of the write loop in which write_file was called and returned
\* False: the call is counted and the file is left as it was
FailedWriteStep == writes' # writes /\ disk' = disk

C11_Step ==
    FailedWriteStep =>
        /\ write_failed'
        /\ failed_edits_indices' = failed_edits_indices
        /\ modified_files_on_disk' = modified_files_on_disk
        /\ pc' = "apply"

C11_AtReturn ==
    (Done /\ FailedWrites # {}) =>
        /\ ~all_succeeded
        /\ finalized = touched_files
        /\ linted = touched_files
        /\ \A q \in touched_files :
              needs_write(q, files_created_in_this_run,
                          Get(edited_file_content, q),
                          Get(original_file_content, q)) => writes[q] = 1

\* C11: a write that fails in the finalize phase makes all_succeeded false,
\* adds no index to failed_indices and does not list the path in
\* modified_files; the write loop and the lint loop still visit every other
\* touched file, and each of them that needs a write gets its write_file call.
C11_FailedWriteIsolated == []C11_AtReturn /\ [][C11_Step]_vars

\* two files touched, every edit succeeded, the write of b.txt failed, a.py
\* was written and linted
C11_Witness ==
    /\ Done
    /\ failed_edits_indices = <<>>
    /\ FailedWrites = {"b.txt"}
    /\ "a.py" \in modified_files_on_disk
    /\ Len(lint_calls["a.py"]) = 1
    /\ ~all_succeeded

\* --------------------------------------------------------------- C12
LintStep == linted' # linted

C12_Step ==
    LintStep =>
        /\ failed_edits_indices' = failed_edits_indices
        /\ modified_files_on_disk' = modified_files_on_disk
        /\ write_failed' = write_failed
        /\ disk' = disk
        /\ lint_errors_found' \subseteq touched_files

C12_AtReturn ==
    Done =>
        /\ \A p \in RelPaths :
              lint_calls[p] =
                 IF p \in touched_files /\ Suffix(p) \in LintableSuffixes
                 THEN <<edited_file_content[p]>>
                 ELSE <<>>
        /\ lint_errors_found \subseteq touched_files
        /\ all_succeeded <=> (failed_edits_indices = <<>> /\ ~write_failed)

\* C12: when apply_edits returns, every touched file with a lintable
\* extension has been handed to its linter exactly once, with its final
\* in-memory text, whatever happened to its edits and its write; lint_errors
\* has keys only among the touched files, and a lint step changes neither
\* failed_indices nor modified_files nor the outcome all_succeeded.
C12_LintedOnceOnFinalText == []C12_AtReturn /\ [][C12_Step]_vars

\* a.py had a failed edit and a failed write, was linted once and has a
\* lint error
C12_Witness ==
    /\ Done
    /\ failed_edits_indices # <<>>
    /\ "a.py" \in FailedWrites
    /\ "a.py" \in lint_errors_found
    /\ Len(lint_calls["a.py"]) = 1


\* ============================================================ EditParser
\* The reply is a sequence of tokens: LF is a newline, SP a blank, CR a
\* carriage return, FENCE the three backticks, the three markers of a patch
\* unit, and words.  A word of PathWords holds a "." (it looks like a path).
MaxBlocks == 2

SP == " "
FENCE == "FENCE"
SEARCH == "<<<<<<< SEARCH"
DIVIDER == "======="
REPLACE == ">>>>>>> REPLACE"

PathWords == {"a.py", "b.py", "c.py", "t0.py", "t1.py"}
PlainWords == {"python", "diff", "note", "foo",
               "s1", "s2", "s3", "s4", "r1", "r2", "r3", "r4"}

\* \s of the regular expressions, and what str.strip() removes
IsSpace(tok) == tok \in {LF, SP, CR}

\* a token the language tag (?:python|diff|[\w\.]+) can match
IsTag(tok) == tok \in PathWords \cup PlainWords

SetMax(S) == CHOOSE x \in S : \A y \in S : y <= x
SetMin(S) == CHOOSE x \in S : \A y \in S : x <= y

\* the position after the longest run of white space that starts at q
RECURSIVE WsRunEnd(_, _)
WsRunEnd(t, q) ==
    IF q > Len(t) \/ ~IsSpace(t[q]) THEN q ELSE WsRunEnd(t, q + 1)

\* str.strip()
Strip(t) ==
    LET keep == {k \in 1..Len(t) : ~IsSpace(t[k])}
    IN IF keep = {} THEN <<>> ELSE SubSeq(t, SetMin(keep), SetMax(keep))

\* the positions e >= from where a newline is followed by the marker
LineStarts(t, from, marker) ==
    {e \in from..(Len(t) - 1) : t[e] = LF /\ t[e + 1] = marker}

\* `"/" in s or "\\" in s or "." in s`
LooksLikePath(line) == \E k \in 1..Len(line) : line[k] \in PathWords

\* --- edit_block_pattern:
\* <<<<<<< SEARCH\s*\n([\s\S]*?)\n=======\s*\n([\s\S]*?)\n>>>>>>> REPLACE
\* \s* is greedy and the groups are lazy: the newline that ends \s* is the
\* last one of the run for which the rest still matches, a group ends at the
\* first position where the rest matches.
ReplaceNewlines(c, q) ==
    {k \in q..(WsRunEnd(c, q) - 1) :
        c[k] = LF /\ LineStarts(c, k + 1, REPLACE) # {}}

Dividers(c, from) ==
    {e \in LineStarts(c, from, DIVIDER) : ReplaceNewlines(c, e + 2) # {}}

SearchNewlines(c, q) ==
    {k \in q..(WsRunEnd(c, q) - 1) :
        c[k] = LF /\ Dividers(c, k + 1) # {}}

\* edit_block_pattern matches with its first token at position p
UnitStartsAt(c, p) ==
    p <= Len(c) /\ c[p] = SEARCH /\ SearchNewlines(c, p + 1) # {}

\* the match at p: its two groups and the position after it
UnitAt(c, p) ==
    LET k1 == SetMax(SearchNewlines(c, p + 1))
        e1 == SetMin(Dividers(c, k1 + 1))
        k2 == SetMax(ReplaceNewlines(c, e1 + 2))
        e2 == SetMin(LineStarts(c, k2 + 1, REPLACE))
    IN [search |-> SubSeq(c, k1 + 1, e1 - 1),
        replace |-> SubSeq(c, k2 + 1, e2 - 1),
        end |-> e2 + 2]

\* where the next match of edit_block_pattern starts (0: nowhere)
RECURSIVE NextUnit(_, _)
NextUnit(c, from) ==
    IF from > Len(c) THEN 0
    ELSE IF UnitStartsAt(c, from) THEN from
    ELSE NextUnit(c, from + 1)

\* edit_block_pattern.finditer(c), from position `from` on (mutant: only
\* the first match, as search() would give)
RECURSIVE finditer_units(_, _)
first_unit_only(c, from) ==
    LET p == NextUnit(c, from)
    IN IF p = 0 THEN <<>> ELSE <<UnitAt(c, p)>>

finditer_units(c, from) ==
    LET p == NextUnit(c, from)
    IN IF p = 0 THEN <<>>
       ELSE LET u == UnitAt(c, p)
            IN <<u>> \o finditer_units(c, u.end)

\* --- code_block_pattern:  ```(?:python|diff|[\w\.]+)?\s*\n([\s\S]*?)\n```
AfterTag(t, p) == IF p + 1 <= Len(t) /\ IsTag(t[p + 1]) THEN p + 2 ELSE p + 1

FenceNewlines(t, p) ==
    {k \in AfterTag(t, p)..(WsRunEnd(t, AfterTag(t, p)) - 1) :
        t[k] = LF /\ LineStarts(t, k + 1, FENCE) # {}}

FenceStartsAt(t, p) ==
    p <= Len(t) /\ t[p] = FENCE /\ FenceNewlines(t, p) # {}

\* the match at p: where it starts, its group and the position after it
FenceAt(t, p) ==
    LET k == SetMax(FenceNewlines(t, p))
        e == SetMin(LineStarts(t, k + 1, FENCE))
    IN [start |-> p, content |-> SubSeq(t, k + 1, e - 1), end |-> e + 2]

\* where the next match of code_block_pattern.finditer starts (0: nowhere)
RECURSIVE NextFence(_, _)
NextFence(t, from) ==
    IF from > Len(t) THEN 0
    ELSE IF FenceStartsAt(t, from) THEN from
    ELSE NextFence(t, from + 1)

\* --- the replies the parser is run on
\* A block is a fence with `units` patch units in it (none: the fence holds
\* the text "foo") and a layout that says where file names stand:
\*   above: "b.py" on the line above the fence; note_above: "note" there
\*   prefix: "c.py " on the fence's own line, before the backticks
\*   glued: like prefix, and the fence opens on the line on which the
\*          block before it closed
\*   inside: "a.py" is the first line inside the fence
Layouts == {"bare", "above", "note_above", "prefix", "glued", "inside",
            "above_inside", "prefix_inside"}

BlockKinds == [layout : Layouts, units : 0..MaxEdits]

SearchWord == <<"s1", "s2", "s3", "s4">>
ReplaceWord == <<"r1", "r2", "r3", "r4">>

TrackedSets == {{}, {<<"t0.py">>, <<"t1.py">>}}

RECURSIVE TotalUnits(_)
TotalUnits(bs) ==
    IF bs = <<>> THEN 0 ELSE Head(bs).units + TotalUnits(Tail(bs))

AboveOf(layout) ==
    IF layout \in {"above", "above_inside"} THEN <<"b.py", LF>>
    ELSE IF layout = "note_above" THEN <<"note", LF>>
    ELSE <<>>

PrefixOf(layout) ==
    IF layout \in {"prefix", "prefix_inside", "glued"} THEN <<"c.py", SP>>
    ELSE <<>>

InsideOf(layout) ==
    IF layout \in {"inside", "above_inside", "prefix_inside"}
    THEN <<"a.py", LF>> ELSE <<>>

\* the patch units number first+1 .. first+count, one per line group
RECURSIVE UnitsText(_, _)
UnitsText(first, count) ==
    IF count = 0 THEN <<>>
    ELSE <<SEARCH, LF, SearchWord[first + 1], LF, DIVIDER, LF,
           ReplaceWord[first + 1], LF, REPLACE, LF>>
         \o UnitsText(first + 1, count - 1)

\* the text of the blocks bs; `first` units stand before them
RECURSIVE Render(_, _)
Render(bs, first) ==
    IF bs = <<>> THEN <<>>
    ELSE LET b == Head(bs)
             glue == Len(bs) > 1 /\ bs[2].layout = "glued"
         IN AboveOf(b.layout) \o PrefixOf(b.layout)
            \o <<FENCE, "python", LF>>
            \o InsideOf(b.layout)
            \o (IF b.units = 0 THEN <<"foo", LF>>
                ELSE UnitsText(first, b.units))
            \o <<FENCE>> \o (IF glue THEN <<SP>> ELSE <<LF>>)
            \o Render(Tail(bs), first + b.units)

\* --- one iteration of `for code_match in potential_code_blocks`
\* code_content_full.split('\n', 1)
FirstLine(content) ==
    LET nls == {k \in 1..Len(content) : content[k] = LF}
    IN IF nls = {} THEN content ELSE SubSeq(content, 1, SetMin(nls) - 1)

RestLines(content) ==
    LET nls == {k \in 1..Len(content) : content[k] = LF}
    IN IF nls = {} THEN None
       ELSE SubSeq(content, SetMin(nls) + 1, Len(content))

\* Case 1 (mutant: the first line inside the fence is never a file name)
first_line_is_filename_never(content) == FALSE

first_line_is_filename(content) ==
    LET first_line_inside == Strip(FirstLine(content))
    IN /\ first_line_inside # <<>>
       /\ first_line_inside[1] # SEARCH
       /\ first_line_inside \notin {<<"python">>, <<"diff">>}
       /\ LooksLikePath(first_line_inside)
       /\ RestLines(content) # None
       /\ NextUnit(RestLines(content), 1) # 0

\* Case 2: the file name read from the text before the fence, or None
preceding_filename(t, code_block_start, lastpos) ==
    LET nls == {j \in 1..(code_block_start - 1) : t[j] = LF}
        line_start == IF nls = {} THEN 1 ELSE SetMax(nls) + 1
        search_start == IF line_start < lastpos THEN lastpos ELSE line_start
        preceding_text == SubSeq(t, search_start, code_block_start - 1)
        stripped == Strip(preceding_text)
        cuts == {k \in 1..Len(stripped) : stripped[k] = LF}
        last_line_before ==
            Strip(IF cuts = {} THEN stripped
                  ELSE SubSeq(stripped, SetMax(cuts) + 1, Len(stripped)))
    IN IF /\ last_line_before # <<>>
          /\ last_line_before \notin {<<"python">>, <<"diff">>}
          /\ LooksLikePath(last_line_before)
       THEN last_line_before ELSE None

\* the order sorted() puts the tracked names in
NameRank(name) == IF name = <<"t0.py">> THEN 0 ELSE 1

\* the fallback (mutant: the last name of the sorted list)
fallback_fname_last(tracked) ==
    CHOOSE f \in tracked : \A g \in tracked : NameRank(g) <= NameRank(f)

\* `list(sorted(current_fnames))[0]`
fallback_fname(tracked) ==
    CHOOSE f \in tracked : \A g \in tracked : NameRank(f) <= NameRank(g)

\* the units of a block as edits of the file fname
RECURSIVE EditsOf(_, _)
EditsOf(fname, units) ==
    IF units = <<>> THEN <<>>
    ELSE <<<<fname, Head(units).search, Head(units).replace>>>>
         \o EditsOf(fname, Tail(units))

\* What the iteration for the fence m does to the parser's locals st =
\* [last_pos, edits, warnings, blocklog]; nr is the number of the fence.
\* blocklog notes the rule that gave the file name: "skipped" (no unit),
\* "inside", "preceding", "fallback" or "dropped".
process_block(t, tracked, st, m, nr) ==
    LET content == m.content
        inside == first_line_is_filename(content)
        before == preceding_filename(t, m.start, st.last_pos)
        entry(rule, fname, count) ==
            [rule |-> rule, fname |-> fname, units |-> count]
        inner_matches_found == finditer_units(content, 1)
    IN IF inner_matches_found = <<>>
       THEN [st EXCEPT !.blocklog = Append(@, entry("skipped", None, 0))]
       ELSE IF inside
       THEN LET fname == Strip(FirstLine(content))
                units == finditer_units(RestLines(content), 1)
            IN [st EXCEPT !.edits = @ \o EditsOf(fname, units),
                          !.last_pos = m.end,
                          !.blocklog = Append(@, entry("inside", fname,
                                                       Len(units)))]
       ELSE IF before # None
       THEN LET units == inner_matches_found
            IN [st EXCEPT !.edits = @ \o EditsOf(before, units),
                          !.last_pos = m.end,
                          !.blocklog = Append(@, entry("preceding", before,
                                                       Len(units)))]
       ELSE IF tracked # {}
       THEN LET fname == fallback_fname(tracked)
                units == inner_matches_found
            IN [st EXCEPT !.edits = @ \o EditsOf(fname, units),
                          !.last_pos = m.end,
                          !.warnings = @ \o <<<<"no filename", nr>>,
                                              <<"assuming", nr>>>>,
                          !.blocklog = Append(@, entry("fallback", fname,
                                                       Len(units)))]
       ELSE [st EXCEPT !.warnings = @ \o <<<<"no filename", nr>>,
                                           <<"cannot apply", nr>>>>,
                       !.blocklog = Append(@, entry("dropped", None, 0))]

\* the post-processing of one edit
post_process(edit) ==
    LET search_block == ReplaceAll(edit[2], <<CR, LF>>, <<LF>>)
        replace_block == ReplaceAll(edit[3], <<CR, LF>>, <<LF>>)
    IN <<Strip(edit[1]), search_block,
         IF Strip(replace_block) = <<>> THEN <<>> ELSE replace_block>>

\* --- the parser as a state machine
\* no apply_edits call is under way; fn is the tracked set, lint and refl
\* are App.lint_errors_found and App.reflected_message
IdleApplier(fn, lint, refl) ==
    /\ pc = "idle"
    /\ disk = [p \in RelPaths |-> Absent]
    /\ disk0 = disk
    /\ fnames = fn
    /\ n = 0
    /\ i = 0
    /\ failed_edits_indices = <<>>
    /\ original_file_content = EmptyDict
    /\ edited_file_content = EmptyDict
    /\ touched_files = {}
    /\ files_created_in_this_run = {}
    /\ write_failed = FALSE
    /\ modified_files_on_disk = {}
    /\ lint_errors_found = lint
    /\ finalized = {}
    /\ linted = {}
    /\ all_succeeded = FALSE
    /\ commit_request = NoCommit
    /\ committed = NoCommit
    /\ reflected_message = refl
    /\ reads = [p \in RelPaths |-> 0]
    /\ writes = [p \in RelPaths |-> 0]
    /\ applied = {}
    /\ noop = {}
    /\ lint_calls = [p \in RelPaths |-> <<>>]
    /\ last = NoStep
    /\ batch = <<>>

ApplierIdle == IdleApplier({}, {}, "None")

\* parse(response) is called
InitParser ==
    /\ ApplierIdle
    /\ TurnIdle
    /\ CssIdle
    /\ \E k \in 1..MaxBlocks : blocks \in [1..k -> BlockKinds]
    /\ TotalUnits(blocks) <= MaxEdits
    /\ response = Render(blocks, 0)
    /\ current_fnames \in TrackedSets
    /\ ppc = "scan"
    /\ scan = 1
    /\ last_pos = 1
    /\ edits = <<>>
    /\ warnings = <<>>
    /\ blocklog = <<>>

\* the loop takes the next match of code_block_pattern
ParseBlock ==
    /\ ppc = "scan"
    /\ NextFence(response, scan) # 0
    /\ LET m == FenceAt(response, NextFence(response, scan))
           st == [last_pos |-> last_pos, edits |-> edits,
                  warnings |-> warnings, blocklog |-> blocklog]
           st2 == process_block(response, current_fnames, st, m,
                                Len(blocklog) + 1)
       IN /\ scan' = m.end
          /\ last_pos' = st2.last_pos
          /\ edits' = st2.edits
          /\ warnings' = st2.warnings
          /\ blocklog' = st2.blocklog
    /\ UNCHANGED <<applierVars, turnVars, cssVars, blocks, response, current_fnames,
                   ppc>>

\* no fence is left: the edits are post-processed and returned
ParseReturn ==
    /\ ppc = "scan"
    /\ NextFence(response, scan) = 0
    /\ ppc' = "done"
    /\ edits' = [k \in 1..Len(edits) |-> post_process(edits[k])]
    /\ UNCHANGED <<applierVars, turnVars, cssVars, blocks, response, current_fnames,
                   scan, last_pos, warnings, blocklog>>

NextParser ==
    \/ ParseBlock
    \/ ParseReturn

SpecParser == InitParser /\ [][NextParser]_vars

\* parse as a function of the reply: the loop run to its end
RECURSIVE parse_from(_, _, _, _)
parse_from(t, tracked, st, from) ==
    LET p == NextFence(t, from)
    IN IF p = 0 THEN st
       ELSE LET m == FenceAt(t, p)
            IN parse_from(t, tracked,
                          process_block(t, tracked, st, m,
                                        Len(st.blocklog) + 1),
                          m.end)

parse_all(t, tracked) ==
    parse_from(t, tracked,
               [last_pos |-> 1, edits |-> <<>>, warnings |-> <<>>,
                blocklog |-> <<>>], 1)

\* ------------------------------------------------------- parser claims
Parsed == ppc = "done"

\* every fence of the reply was matched as the block it was written as
ParserLogAligned == Parsed => Len(blocklog) = Len(blocks)

\* units written before block k, and instructions emitted before it
WrittenBefore(k) == TotalUnits(SubSeq(blocks, 1, k - 1))

RECURSIVE LoggedUnits(_)
LoggedUnits(log) ==
    IF log = <<>> THEN 0 ELSE Head(log).units + LoggedUnits(Tail(log))

EmittedBefore(k) == LoggedUnits(SubSeq(blocklog, 1, k - 1))

\* the instructions the units of block k give when its file is fname
RECURSIVE UnitEdits(_, _, _)
UnitEdits(fname, first, count) ==
    IF count = 0 THEN <<>>
    ELSE <<<<fname, <<SearchWord[first + 1]>>, <<ReplaceWord[first + 1]>>>>>>
         \o UnitEdits(fname, first + 1, count - 1)

\* the instructions parse returned for block k
EditsOfBlock(k) ==
    SubSeq(edits, EmittedBefore(k) + 1, EmittedBefore(k) + blocklog[k].units)

WarnedAbout(k) == \E w \in 1..Len(warnings) : warnings[w][2] = k

\* C13: a block with patch units whose first inside line is no file name
\* and whose preceding line (the line above the opening backticks) is the
\* path b.py gets the file name b.py, wherever the block stands.
C13_PrecedingLineNamesFile ==
    Parsed =>
        \A k \in 1..Len(blocks) :
            (blocks[k].layout = "above" /\ blocks[k].units > 0)
                => blocklog[k].fname = <<"b.py">>

\* C14: a block whose first inside line is the path a.py, followed by patch
\* units, gets the file name a.py for each of its units, whatever stands
\* above or before the fence and whatever is tracked; the line is not part
\* of any unit's text and no warning is printed for the block.
C14_FirstInsideLineNamesFile ==
    Parsed =>
        \A k \in 1..Len(blocks) :
            (blocks[k].layout \in {"inside", "above_inside", "prefix_inside"}
             /\ blocks[k].units > 0)
                => /\ blocklog[k].rule = "inside"
                   /\ ~WarnedAbout(k)
                   /\ EditsOfBlock(k) =
                         UnitEdits(<<"a.py">>, WrittenBefore(k),
                                   blocks[k].units)

\* a.py stands inside both blocks, b.py above the first, c.py before the
\* second, and files are tracked
C14_Witness ==
    /\ Parsed
    /\ Len(blocks) = 2
    /\ blocks[1] = [layout |-> "above_inside", units |-> 1]
    /\ blocks[2] = [layout |-> "prefix_inside", units |-> 1]
    /\ current_fnames # {}
    /\ Len(edits) = 2

\* C15: a block with patch units and no path inside, above or before the
\* fence gets the smallest tracked name, with a warning; with nothing
\* tracked it gives no instruction, with a warning, and the blocks after it
\* are parsed all the same.
C15_FallbackOrDrop ==
    Parsed =>
        /\ Len(blocklog) = Len(blocks)
        /\ Len(edits) = LoggedUnits(blocklog)
        /\ \A k \in 1..Len(blocks) :
              (blocks[k].layout \in {"bare", "note_above"}
               /\ blocks[k].units > 0)
                  => IF current_fnames # {}
                     THEN /\ blocklog[k].fname \in current_fnames
                          /\ \A g \in current_fnames :
                                NameRank(blocklog[k].fname) <= NameRank(g)
                          /\ EditsOfBlock(k) =
                                UnitEdits(blocklog[k].fname,
                                          WrittenBefore(k), blocks[k].units)
                          /\ \E w \in 1..Len(warnings) :
                                warnings[w] = <<"assuming", k>>
                     ELSE /\ blocklog[k].units = 0
                          /\ \E w \in 1..Len(warnings) :
                                warnings[w] = <<"cannot apply", k>>
                          /\ \A j \in (k + 1)..Len(blocks) :
                                blocklog[j].rule = "inside"
                                   => EditsOfBlock(j) =
                                         UnitEdits(<<"a.py">>,
                                                   WrittenBefore(j),
                                                   blocks[j].units)

\* nothing is tracked: the first block is dropped, the second one, which
\* names its file, is parsed
C15_Witness ==
    /\ Parsed
    /\ current_fnames = {}
    /\ Len(blocks) = 2
    /\ blocks[1] = [layout |-> "bare", units |-> 1]
    /\ blocks[2] = [layout |-> "inside", units |-> 1]
    /\ edits = <<<<<<"a.py">>, <<"s2">>, <<"r2">>>>>>
    /\ Len(warnings) = 2

\* the instructions of the blocks k.. of the reply, each block with the
\* file name the parser resolved for it
RECURSIVE ExpectedEdits(_)
ExpectedEdits(k) ==
    IF k > Len(blocks) THEN <<>>
    ELSE (IF blocklog[k].rule \in {"inside", "preceding", "fallback"}
          THEN UnitEdits(blocklog[k].fname, WrittenBefore(k),
                         blocks[k].units)
          ELSE <<>>)
         \o ExpectedEdits(k + 1)

\* C16: parse returns one instruction per patch unit of the blocks whose
\* file name was resolved, block after block and unit after unit, each with
\* its block's file name and its own search and replace text.
C16_OneInstructionPerUnit ==
    Parsed => (Len(blocklog) = Len(blocks) /\ edits = ExpectedEdits(1))

\* two blocks with one unit each, resolved to different files
C16_Witness ==
    /\ Parsed
    /\ Len(blocks) = 2
    /\ blocks[1].units = 1
    /\ blocks[2].units = 1
    /\ Len(edits) = 2
    /\ edits[1][1] # edits[2][1]

\* the blocks without the k-th
RemoveAt(bs, k) == SubSeq(bs, 1, k - 1) \o SubSeq(bs, k + 1, Len(bs))

\* C17: a block without patch unit gives no instruction and no warning, and
\* every other block gets the file name it gets in the reply without that
\* block.
C17_ExplanatoryBlockIgnored ==
    Parsed =>
        \A k \in 1..Len(blocks) :
            blocks[k].units = 0 =>
                LET alone == parse_all(Render(RemoveAt(blocks, k), 0),
                                       current_fnames).blocklog
                IN /\ blocklog[k].rule = "skipped"
                   /\ ~WarnedAbout(k)
                   /\ Len(edits) = LoggedUnits(blocklog)
                   /\ \A j \in 1..Len(blocks) \ {k} :
                         blocklog[j].fname =
                            alone[IF j < k THEN j ELSE j - 1].fname


\* ============================================================ App.run_one
\* One user turn.  What the model replies, what the parser finds in the
\* reply and what apply_edits returns for it are inputs of each
\* process_user_input call; apply_edits returns all_succeeded as it computes
\* it from failed_indices and the failed writes.
max_reflections == 3

\* the condition of `while not non_interactive and self.reflected_message`
\* (mutant: the mode is not looked at)
loop_continues_any_mode(ni, refl) == refl # "None"

loop_continues(ni, refl) == ~ni /\ refl # "None"

\* `if num_reflections >= max_reflections` (mutant: off by one)
limit_reached_late(num) == num > max_reflections

limit_reached(num) == num >= max_reflections

\* run_one is called; a turn before it may have left lint errors and a
\* reflection message behind
InitRunOne ==
    /\ ParserIdle
    /\ CssIdle
    /\ \E fn \in SUBSET RelPaths, lint \in {{}, {"a.py"}},
          refl \in {"None", "failed", "lint"} :
          IdleApplier(fn, lint, refl)
    /\ tpc = "start"
    /\ non_interactive \in BOOLEAN
    /\ mode \in {"code", "ask"}
    /\ num_reflections = 0
    /\ llm_calls = 0
    /\ process_calls = 0
    /\ apply_calls = 0
    /\ prompts = 0
    /\ limit_hit = FALSE
    /\ failed_indices_str = IF reflected_message = "failed" THEN <<1>>
                            ELSE <<>>
    /\ lastround = NoRound

turnFrame == <<pc, disk, disk0, n, i, original_file_content,
               edited_file_content, touched_files,
               files_created_in_this_run, write_failed, finalized, linted,
               committed, reads, writes, applied, noop, lint_calls, last,
               batch>>

\* run_one up to its first process_user_input call: init_before_message,
\* the commands and the empty message, which return at once, and the
\* question to the model for files when code mode has none
RunOneStart ==
    /\ tpc = "start"
    /\ lint_errors_found' = {}
    /\ reflected_message' = "None"
    /\ failed_indices_str' = <<>>
    /\ \E preproc \in BOOLEAN, kind \in {"command", "shell", "empty", "text"} :
          IF (preproc /\ kind \in {"command", "shell"}) \/ kind = "empty"
          THEN /\ tpc' = "skipped"
               /\ UNCHANGED <<fnames, llm_calls>>
          ELSE /\ tpc' = "process"
               /\ IF mode = "code" /\ fnames = {}
                  THEN /\ llm_calls' = llm_calls + 1
                       /\ \E suggested \in SUBSET RelPaths :
                             fnames' = suggested
                  ELSE UNCHANGED <<fnames, llm_calls>>
    /\ UNCHANGED <<parserVars, cssVars, turnFrame, failed_edits_indices,
                   modified_files_on_disk, all_succeeded, commit_request,
                   non_interactive, mode, num_reflections, process_calls,
                   apply_calls, prompts, limit_hit, lastround>>

\* what apply_edits can return as failed_indices
FailedLists == {<<>>, <<1>>, <<2>>, <<1, 2>>}

\* one call of process_user_input
ProcessUserInput ==
    /\ tpc = "process"
    /\ tpc' = "loop"
    /\ process_calls' = process_calls + 1
    /\ llm_calls' = llm_calls + 1
    /\ \E reply \in {"none", "text", "edits"} :
          LET rnd == [NoRound EXCEPT !.reply = reply]
          IN IF reply = "none" \/ mode # "code"
             THEN /\ lastround' = rnd
                  /\ UNCHANGED <<failed_edits_indices,
                                 modified_files_on_disk, lint_errors_found,
                                 all_succeeded, commit_request,
                                 reflected_message, failed_indices_str,
                                 apply_calls, prompts>>
             ELSE IF reply = "edits"
             THEN \E failed \in FailedLists, wfailed \in BOOLEAN,
                     modified \in {{}, {"a.py"}}, lint \in {{}, {"a.py"}} :
                     LET succeeded == compute_all_succeeded(failed, wfailed)
                     IN /\ apply_calls' = apply_calls + 1
                        /\ failed_edits_indices' = failed
                        /\ modified_files_on_disk' = modified
                        /\ all_succeeded' = succeeded
                        /\ lint_errors_found' = lint
                        /\ HandleApplied(succeeded, failed, modified, lint)
             ELSE /\ LintCheck(lint_errors_found, reflected_message,
                               failed_indices_str, rnd)
                  /\ UNCHANGED <<failed_edits_indices,
                                 modified_files_on_disk, lint_errors_found,
                                 all_succeeded, commit_request, apply_calls>>
    /\ UNCHANGED <<parserVars, cssVars, turnFrame, fnames, non_interactive, mode,
                   num_reflections, limit_hit>>

\* the test of the while loop and, when it is entered, its body up to the
\* process_user_input call
ReflectionLoop ==
    /\ tpc = "loop"
    /\ IF ~loop_continues(non_interactive, reflected_message)
       THEN /\ tpc' = "exit"
            /\ UNCHANGED <<reflected_message, failed_indices_str,
                           num_reflections, limit_hit>>
       ELSE IF limit_reached(num_reflections)
       THEN /\ tpc' = "exit"
            /\ reflected_message' = "None"
            /\ failed_indices_str' = <<>>
            /\ limit_hit' = TRUE
            /\ UNCHANGED num_reflections
       ELSE /\ tpc' = "process"
            /\ num_reflections' = num_reflections + 1
            /\ reflected_message' = "None"
            /\ failed_indices_str' = <<>>
            /\ UNCHANGED limit_hit
    /\ UNCHANGED <<parserVars, cssVars, turnFrame, fnames, failed_edits_indices,
                   modified_files_on_disk, lint_errors_found, all_succeeded,
                   commit_request, non_interactive, mode, llm_calls,
                   process_calls, apply_calls, prompts, lastround>>

NextRunOne ==
    \/ RunOneStart
    \/ ProcessUserInput
    \/ ReflectionLoop

SpecRunOne == InitRunOne /\ [][NextRunOne]_vars

\* ------------------------------------------------------ run_one claims
\* how far the turn is from its end
TurnMeasure ==
    IF tpc \in {"exit", "skipped", "off"} THEN 0
    ELSE IF tpc = "start" THEN 2 * max_reflections + 4
    ELSE 2 * (max_reflections - num_reflections)
         + (IF tpc = "process" THEN 3 ELSE 2)

C18_Inv ==
    ~non_interactive =>
        /\ num_reflections <= max_reflections
        /\ process_calls <= max_reflections + 1
        /\ process_calls <= num_reflections + 1
        /\ llm_calls <= process_calls + 1
        /\ tpc = "exit" => reflected_message = "None"
        /\ limit_hit => (tpc = "exit" /\ num_reflections = max_reflections)
        /\ tpc \in {"start", "process", "loop"} => TurnMeasure > 0

C18_Step ==
    /\ TurnMeasure' < TurnMeasure
    /\ (~non_interactive /\ tpc = "loop" /\ reflected_message # "None"
        /\ num_reflections = max_reflections)
          => (tpc' = "exit" /\ reflected_message' = "None"
              /\ llm_calls' = llm_calls)

C20_NoLintPromptNonInteractive == non_interactive => prompts = 0

\* process_user_input has just returned from a round in which apply_edits
\* was called
AfterApplyRound == tpc = "loop" /\ lastround.applied

\* C21: after a round whose apply_edits returned a non-empty failed_indices,
\* the pending reflection is the message that names exactly the failed
\* indices, sorted, and no commit was made in that round.
C21_FailedIndicesReflected ==
    (AfterApplyRound /\ failed_edits_indices # <<>>) =>
        /\ reflected_message = "failed"
        /\ failed_indices_str = sorted(failed_edits_indices)
        /\ ~lastround.committed

\* C22: the lint question is put only in a round whose apply_edits returned
\* no failed index and some lint error; after it the lint message is
\* pending when the answer was y and nothing is pending otherwise.
C22_LintQuestionOnlyWithoutFailures ==
    (AfterApplyRound /\ lastround.asked) =>
        /\ failed_edits_indices = <<>>
        /\ lint_errors_found # {}
        /\ reflected_message = IF lastround.accepted THEN "lint" ELSE "None"

\* the step in which process_user_input handles what apply_edits returned
C23_Step ==
    (pc = "returned" /\ pc' = "done" /\ all_succeeded
     /\ modified_files_on_disk # {}) =>
        /\ commit_request' = modified_files_on_disk
        /\ lastround'.committed

\* C23: in every round where apply_edits returns all_succeeded true and a
\* non-empty modified_files, _git_add_commit is called with those files,
\* whether lint errors were found or not and whatever is answered to the
\* lint question.
C23_LintNeverBlocksCommit == [][C23_Step]_vars

\* files were committed in a round that found lint errors and whose lint
\* question was answered with y
C23_Witness ==
    /\ pc = "done"
    /\ all_succeeded
    /\ lint_errors_found # {}
    /\ lastround.asked
    /\ lastround.accepted
    /\ reflected_message = "lint"
    /\ commit_request = modified_files_on_disk
    /\ commit_request # {}

\* =========================================================== CssValidator
\* A style sheet is a sequence of characters.  The texts validated are made
\* of at most MaxCss pieces: a brace, the newline, a letter, the colon, the
\* semicolon, a comment that holds a closing brace and a newline, and the
\* two characters that open a comment.
MaxCss == 4

CssPieces == {<<"{">>, <<"}">>, <<LF>>, <<"a">>, <<":">>, <<";">>,
              <<"/", "*", "}", LF, "*", "/">>, <<"/", "*">>}

RECURSIVE Flatten(_)
Flatten(pieces) ==
    IF pieces = <<>> THEN <<>> ELSE Head(pieces) \o Flatten(Tail(pieces))

CssTexts ==
    UNION {{Flatten(ps) : ps \in [1..k -> CssPieces]} : k \in 0..MaxCss}

\* re.sub(r"/\*.*?\*/", "", text, flags=re.DOTALL): a comment runs from
\* "/*" to the first "*/" that starts after it; a "/*" that is never closed
\* stays in the text
RECURSIVE remove_comments(_)
remove_comments(text) ==
    IF text = <<>> THEN <<>>
    ELSE LET closes == {k \in 3..(Len(text) - 1) :
                           text[k] = "*" /\ text[k + 1] = "/"}
         IN IF OccursAt(text, <<"/", "*">>, 1) /\ closes # {}
            THEN remove_comments(SubSeq(text, SetMin(closes) + 2, Len(text)))
            ELSE <<text[1]>> \o remove_comments(Tail(text))

\* text.count("\n")
CountLF(text) == Cardinality({k \in 1..Len(text) : text[k] = LF})

\* the line of the character at position k (mutant: lines counted from 0)
error_line_from_zero(text, k) == CountLF(SubSeq(text, 1, k))

\* `self._content_no_comments[: i + 1].count("\n") + 1`, with k = i + 1
error_line(text, k) == CountLF(SubSeq(text, 1, k)) + 1

\* what _check_brace_balance returns after its loop (mutant: False when a
\* brace is left open)
end_of_scan_ok_when_balanced(balance) == balance = 0

\* `return True` at the end of _check_brace_balance
end_of_scan_ok(balance) == TRUE

BraceError(kind, line) == [kind |-> kind, line |-> line, found |-> <<>>]

\* re.findall(r"\{(.*?)\}", text, flags=re.DOTALL), looking from position q
RECURSIVE rule_blocks_from(_, _)
rule_blocks_from(text, q) ==
    LET closing(k) == {e \in (k + 1)..Len(text) : text[e] = "}"}
        opens == {k \in q..Len(text) : text[k] = "{" /\ closing(k) # {}}
    IN IF opens = {} THEN <<>>
       ELSE LET o == SetMin(opens)
                e == SetMin(closing(o))
            IN <<SubSeq(text, o + 1, e - 1)>> \o rule_blocks_from(text, e + 1)

rule_blocks(text) == rule_blocks_from(text, 1)

\* [m.start() for m in re.finditer(r"\{", text)], 1-based
block_start_indices(text) ==
    LET opens == {k \in 1..Len(text) : text[k] = "{"}
    IN [j \in 1..Cardinality(opens) |->
           CHOOSE k \in opens : Cardinality({m \in opens : m < k}) = j - 1]

\* text.split(sep)
RECURSIVE Split(_, _)
Split(text, sep) ==
    LET seps == {k \in 1..Len(text) : text[k] = sep}
    IN IF seps = {} THEN <<text>>
       ELSE <<SubSeq(text, 1, SetMin(seps) - 1)>>
            \o Split(SubSeq(text, SetMin(seps) + 1, Len(text)), sep)

\* the body of `for decl_index, declaration in enumerate(declarations)`:
\* the errors one declaration adds
declaration_errors(block, block_start_line, part) ==
    LET declaration == Strip(part)
        line_offset_in_block ==
            IF Contains(block, declaration)
            THEN CountLF(SubSeq(block, 1, Find(block, declaration) - 1))
            ELSE 0
        line == block_start_line + line_offset_in_block
    IN IF declaration = <<>> THEN <<>>
       ELSE IF ":" \notin Range(declaration)
       THEN <<[kind |-> "missing_colon", line |-> line,
               found |-> declaration]>>
       ELSE IF declaration[Len(declaration)] = ":"
       THEN <<[kind |-> "missing_value", line |-> line,
               found |-> declaration]>>
       ELSE <<>>

RECURSIVE declarations_errors(_, _, _)
declarations_errors(block, block_start_line, declarations) ==
    IF declarations = <<>> THEN <<>>
    ELSE declaration_errors(block, block_start_line, Head(declarations))
         \o declarations_errors(block, block_start_line, Tail(declarations))

\* _check_rule_structure: the errors it appends, blocks i.. of the loop
\* `for i in range(num_blocks_to_check)`
RECURSIVE rule_errors_from(_, _)
rule_errors_from(text, b) ==
    LET blks == rule_blocks(text)
        starts == block_start_indices(text)
        num_blocks_to_check ==
            IF Len(blks) < Len(starts) THEN Len(blks) ELSE Len(starts)
    IN IF b > num_blocks_to_check THEN <<>>
       ELSE LET block == blks[b]
                block_start_line ==
                    CountLF(SubSeq(text, 1, starts[b] - 1)) + 1
            IN declarations_errors(block, block_start_line,
                                   Split(Strip(block), ";"))
               \o rule_errors_from(text, b + 1)

check_rule_structure(text) == rule_errors_from(text, 1)

\* --- validate as a state machine
\* a validator was built on a text and validate() is called
InitCss ==
    /\ ApplierIdle
    /\ ParserIdle
    /\ TurnIdle
    /\ cpc = "start"
    /\ css_content \in CssTexts
    /\ content_no_comments = <<>>
    /\ errors = <<>>
    /\ ci = 0
    /\ brace_balance = 0
    /\ is_valid = FALSE
    /\ structure_checked = FALSE

cssFrame == <<applierVars, parserVars, turnVars, css_content>>

\* `self._errors = []; self._remove_comments()` and the entry of
\* _check_brace_balance
RemoveComments ==
    /\ cpc = "start"
    /\ cpc' = "braces"
    /\ errors' = <<>>
    /\ content_no_comments' = remove_comments(css_content)
    /\ ci' = 0
    /\ brace_balance' = 0
    /\ UNCHANGED <<cssFrame, is_valid, structure_checked>>

\* one iteration of `for i, char in enumerate(self._content_no_comments)`;
\* on a negative balance _check_brace_balance returns False and validate
\* returns (False, errors)
BraceChar ==
    /\ cpc = "braces"
    /\ ci < Len(content_no_comments)
    /\ LET k == ci + 1
           char == content_no_comments[k]
           balance == IF char = "{" THEN brace_balance + 1
                      ELSE IF char = "}" THEN brace_balance - 1
                      ELSE brace_balance
       IN /\ brace_balance' = balance
          /\ IF balance < 0
             THEN /\ errors' = Append(errors,
                         BraceError("unexpected",
                                    error_line(content_no_comments, k)))
                  /\ cpc' = "done"
                  /\ is_valid' = FALSE
                  /\ UNCHANGED ci
             ELSE /\ ci' = k
                  /\ UNCHANGED <<cpc, errors, is_valid>>
    /\ UNCHANGED <<cssFrame, content_no_comments, structure_checked>>

\* the end of _check_brace_balance, after the loop
BraceEnd ==
    /\ cpc = "braces"
    /\ ci = Len(content_no_comments)
    /\ errors' = IF brace_balance > 0
                 THEN Append(errors, BraceError("unmatched", 0))
                 ELSE errors
    /\ IF end_of_scan_ok(brace_balance)
       THEN cpc' = "rules" /\ UNCHANGED is_valid
       ELSE cpc' = "done" /\ is_valid' = FALSE
    /\ UNCHANGED <<cssFrame, content_no_comments, ci, brace_balance,
                   structure_checked>>

\* `self._check_rule_structure()`
CheckRuleStructure ==
    /\ cpc = "rules"
    /\ cpc' = "ret"
    /\ errors' = errors \o check_rule_structure(content_no_comments)
    /\ structure_checked' = TRUE
    /\ UNCHANGED <<cssFrame, content_no_comments, ci, brace_balance,
                   is_valid>>

\* `is_valid = not self._errors; return is_valid, self._errors`
ValidateReturn ==
    /\ cpc = "ret"
    /\ cpc' = "done"
    /\ is_valid' = (errors = <<>>)
    /\ UNCHANGED <<cssFrame, content_no_comments, errors, ci,
                   brace_balance, structure_checked>>

NextCss ==
    \/ RemoveComments
    \/ BraceChar
    \/ BraceEnd
    \/ CheckRuleStructure
    \/ ValidateReturn

SpecCss == InitCss /\ [][NextCss]_vars

\* ------------------------------------------------- CssValidator claims
Validated == cpc = "done"

\* opening minus closing braces among the first k tokens
Balance(text, k) ==
    Cardinality({j \in 1..k : text[j] = "{"})
    - Cardinality({j \in 1..k : text[j] = "}"})

\* the positions at which the running balance is negative
NegativeAt(text) == {k \in 1..Len(text) : Balance(text, k) < 0}

Stripped == remove_comments(css_content)

\* C24: the first closing brace that makes the running balance of the
\* comment-stripped content negative ends the validation: validate returns
\* False with exactly one error, which names the line of that brace (one
\* more than the newlines in front of it), the scan stops at that brace and
\* the rule-structure check is not run.
C24_UnexpectedCloseIsFatal ==
    (Validated /\ NegativeAt(Stripped) # {}) =>
        LET k == SetMin(NegativeAt(Stripped))
        IN /\ content_no_comments = Stripped
           /\ Stripped[k] = "}"
           /\ ~is_valid
           /\ errors = <<BraceError("unexpected",
                            CountLF(SubSeq(Stripped, 1, k - 1)) + 1)>>
           /\ ci = k - 1
           /\ ~structure_checked

\* a comment was removed and the brace that nothing opens is on line 2
C24_Witness ==
    /\ Validated
    /\ content_no_comments # css_content
    /\ ~is_valid
    /\ Len(errors) = 1
    /\ errors[1].kind = "unexpected"
    /\ errors[1].line = 2
    /\ ~structure_checked

\* C25: when the balance never goes negative, the rule-structure check is
\* run; a positive balance at the end of the input adds exactly one
\* "unmatched" error, in front of the declaration errors of the same result;
\* and whatever the text, validate returns True exactly when it returns no
\* error.
C25_UnmatchedOpenIsNotFatal ==
    Validated =>
        /\ is_valid <=> errors = <<>>
        /\ NegativeAt(Stripped) = {} =>
              /\ structure_checked
              /\ ci = Len(Stripped)
              /\ errors =
                    (IF Balance(Stripped, Len(Stripped)) > 0
                     THEN <<BraceError("unmatched", 0)>> ELSE <<>>)
                    \o check_rule_structure(Stripped)
              /\ \A j \in 2..Len(errors) : errors[j].kind # "unmatched"

\* a brace is left open and a declaration of a closed block has no colon:
\* both errors are in the result
C25_Witness ==
    /\ Validated
    /\ structure_checked
    /\ ~is_valid
    /\ Len(errors) = 2
    /\ errors[1].kind = "unmatched"
    /\ errors[2].kind = "missing_colon"

\* ================================== apply_edits on a batch given whole
\* apply_edits is called with up to MaxGiven edits of the tracked file a.py,
\* which holds one of GivenDisk; the edits are fixed when the call starts.
MaxGiven == 2

GivenDisk == {Absent, <<>>, <<"a", "a">>, <<LF, LF>>, <<"a", LF, "a">>}

GivenEdits ==
    {<<"a.py", s, r>> : s \in {<<>>, <<"a">>, <<LF>>},
                        r \in {<<>>, <<"b">>, <<"a", "a">>}}

InitGiven ==
    /\ ParserIdle
    /\ TurnIdle
    /\ CssIdle
    /\ pc = "apply"
    /\ \E d \in GivenDisk :
          disk = [p \in RelPaths |-> IF p = "a.py" THEN d ELSE Absent]
    /\ disk0 = disk
    /\ fnames = {"a.py"}
    /\ \E len \in 1..MaxGiven : batch \in [1..len -> GivenEdits]
    /\ n = Len(batch)
    /\ i = 0
    /\ failed_edits_indices = <<>>
    /\ original_file_content = EmptyDict
    /\ edited_file_content = EmptyDict
    /\ touched_files = {}
    /\ files_created_in_this_run = {}
    /\ write_failed = FALSE
    /\ modified_files_on_disk = {}
    /\ lint_errors_found = {}
    /\ finalized = {}
    /\ linted = {}
    /\ all_succeeded = FALSE
    /\ commit_request = NoCommit
    /\ committed = NoCommit
    /\ reflected_message = "None"
    /\ reads = [p \in RelPaths |-> 0]
    /\ writes = [p \in RelPaths |-> 0]
    /\ applied = {}
    /\ noop = {}
    /\ lint_calls = [p \in RelPaths |-> <<>>]
    /\ last = NoStep

\* one iteration of the edit loop on the next edit of the batch
ApplyGiven ==
    /\ UNCHANGED <<parserVars, turnVars, cssVars, batch>>
    /\ pc = "apply"
    /\ i < n
    /\ batch # <<>>
    /\ i' = i + 1
    /\ EditStep(batch[i + 1][1], batch[i + 1][2], batch[i + 1][3])
    /\ UNCHANGED <<pc, disk0, n, write_failed,
                   modified_files_on_disk, lint_errors_found, finalized,
                   linted, callerVars, writes, lint_calls>>

NextGiven ==
    \/ ApplyGiven
    \/ FinalizeFile
    \/ LintFile
    \/ Return

SpecGiven == InitGiven /\ [][NextGiven]_vars

\* the in-memory content of path p as an edit finds it
CurrentOf(p) ==
    IF p \in touched_files THEN edited_file_content[p]
    ELSE IF disk[p] = Absent THEN <<>>
    ELSE UniversalNewlines(disk[p])

C26_Step ==
    (pc = "apply" /\ i' = i + 1) =>
        LET p == get_abs_path(batch[i + 1][1])
            search == batch[i + 1][2]
            replace == batch[i + 1][3]
            current == CurrentOf(p)
            blank == \A k \in 1..Len(search) : search[k] \in Whitespace
            occ == {k \in 1..Len(current) : OccursAt(current, search, k)}
            new == edited_file_content'[p]
            succeeded == failed_edits_indices' = failed_edits_indices
        IN IF current = <<>> /\ blank
           THEN new = replace /\ succeeded
           ELSE IF search = <<>>
           THEN new = replace \o current /\ succeeded
           ELSE IF occ # {}
           THEN /\ new = SubSeq(current, 1, SetMin(occ) - 1) \o replace
                         \o SubSeq(current, SetMin(occ) + Len(search),
                                   Len(current))
                /\ succeeded
           ELSE /\ new = current
                /\ failed_edits_indices' =
                      Append(failed_edits_indices, i + 1)

\* C26: an edit on a resolved and allowed file works on the file's current
\* in-memory content: an empty content with an empty or whitespace-only
\* search becomes the replacement; else an empty search puts the replacement
\* in front; else the first occurrence of the search text, and no other, is
\* replaced; else the index is recorded as failed and the content is left
\* as it was.
C26_ClassifiedOnCurrent == [][C26_Step]_vars

\* a.py was not on disk: the first edit gave it the content "aa", the
\* second replaced the first "a" and left the other
C26_Witness ==
    /\ batch = <<<<"a.py", <<>>, <<"a", "a">>>>, <<"a.py", <<"a">>, <<"b">>>>>>
    /\ disk0["a.py"] = Absent
    /\ i = 2
    /\ applied = {1, 2}
    /\ edited_file_content["a.py"] = <<"b", "a">>

\* the final in-memory content of a touched path is not what was read from
\* the disk at first touch (nothing was read when the file was absent)
DiffersFromOriginal(p) ==
    \/ original_file_content[p] = None
    \/ edited_file_content[p] # original_file_content[p]

\* what write_file leaves on the disk for the final content of p
WrittenForm(p) ==
    IF HadCRLF(p)
    THEN ReplaceAll(edited_file_content[p], <<LF>>, <<CR, LF>>)
    ELSE edited_file_content[p]

\* C27: when apply_edits returns with a non-empty failed_indices,
\* all_succeeded is false and every touched file whose final in-memory
\* content differs from its original disk content was handed to write_file
\* in the finalize phase; unless that write itself failed, the file holds
\* the final content and is listed in modified_files.
C27_FailedEditDoesNotRollBack ==
    (Done /\ failed_edits_indices # <<>>) =>
        /\ ~all_succeeded
        /\ \A p \in touched_files :
              DiffersFromOriginal(p) =>
                 /\ writes[p] = 1
                 /\ p \notin FailedWrites =>
                       /\ p \in modified_files_on_disk
                       /\ disk[p] = WrittenForm(p)

\* the first edit of the batch failed, the second changed a file that
\* existed, and the change is on disk
C27_Witness ==
    /\ Done
    /\ ~all_succeeded
    /\ failed_edits_indices = <<1>>
    /\ applied = {2}
    /\ ~write_failed
    /\ \E p \in modified_files_on_disk :
          /\ disk0[p] # Absent
          /\ disk[p] # disk0[p]

\* C28: when every edit of the batch failed or was a no-op, the finalize
\* phase writes to no path: no write_file call, an empty modified_files, and
\* every touched file is on disk as it was when the batch started (so a
\* touched file that did not exist is not created).
C28_NothingAppliedNothingWritten ==
    (Done /\ applied = {}) =>
        /\ \A p \in RelPaths : writes[p] = 0
        /\ modified_files_on_disk = {}
        /\ \A p \in touched_files : disk[p] = disk0[p]

\* C29: the lint question is put only in a round that called apply_edits,
\* about the lint errors that call returned: a round whose reply holds no
\* edit asks nothing.
C29_LintQuestionAboutThisRound ==
    (tpc = "loop" /\ lastround.asked) => lastround.applied

\* an iteration of the edit loop on a path that resolved
EditOn(p) == pc = "apply" /\ i' = i + 1 /\ last'.path = p /\ p # NonePath

\* the iteration showed the confirmation prompt
Prompted == last'.answer # "-"

\* the answer to the confirmation prompt was y or Y
AcceptedAnswer(ans) == ans # "-" /\ Lower(ans) = "y"

\* the original statement of C30: after an accepted confirmation the next
\* edit of the batch on the same path never prompts, after a declined one it
\* always does
C30_OriginalStep ==
    \A p \in RelPaths :
       (EditOn(p) /\ last.path = p) =>
          /\ AcceptedAnswer(last.answer) => ~Prompted
          /\ last.kind = "declined" => Prompted

C30_AcceptedNeverAskedAgain == [][C30_OriginalStep]_vars

\* C30: an edit prompts exactly when its path is neither tracked nor
\* touched; neither set ever loses a path during the batch; a declined
\* prompt leaves both sets as they were, and an accepted one puts the path
\* into the tracked set exactly when the file exists after add_file (it
\* existed, or its creation was accepted and succeeded).  So a path that was
\* accepted and added is not prompted for again, while a declined path, and
\* an accepted path add_file did not add, is prompted for again by the next
\* edit on it.
C30_Step ==
    \A p \in RelPaths :
       EditOn(p) =>
          /\ Prompted <=> (p \notin fnames /\ p \notin touched_files)
          /\ fnames \subseteq fnames'
          /\ touched_files \subseteq touched_files'
          /\ (Prompted /\ ~AcceptedAnswer(last'.answer)) =>
                /\ last'.kind = "declined"
                /\ fnames' = fnames
                /\ touched_files' = touched_files
          /\ (Prompted /\ AcceptedAnswer(last'.answer)) =>
                /\ p \in fnames' <=> disk'[p] # Absent
                /\ fnames' \subseteq fnames \cup {p}
          /\ last.path = p =>
                /\ last.kind = "declined" => Prompted
                /\ AcceptedAnswer(last.answer) =>
                      (Prompted <=> p \notin fnames)

C30_PromptedOncePerAddedPath == [][C30_Step]_vars

\* the first edit of the batch was confirmed for b.txt, which did not exist
\* and was created by add_file; the second edit, on the same path, was not
\* prompted for
C30_Witness ==
    /\ pc = "apply"
    /\ i = 2
    /\ finalized = {}
    /\ disk0["b.txt"] = Absent
    /\ disk["b.txt"] = <<>>
    /\ "b.txt" \in fnames
    /\ failed_edits_indices = <<1>>
    /\ last.path = "b.txt"
    /\ last.answer = "-"

====
